---- MODULE Spec2Model ----
(***************************************************************************)
(* Model of the triton feed-forward network core:                          *)
(*   src/src/network/network.rs      Network (add_layer, compile,          *)
(*                                   feed_forward, back_propegate, fit)    *)
(*   src/src/network/layer/dense.rs  Dense (new, forward, backward)        *)
(* Matrix, Activations, Input and LayerTypes are not part of the source    *)
(* tree at hand; they are modelled from the specification (sections 4.1,   *)
(* 4.2, 4.5 and 6).                                                        *)
(*                                                                         *)
(* f32 values are modelled as integers that saturate at -FMax and FMax.    *)
(* A panic ends the program: the state at the panic is kept and no         *)
(* further operation is enabled.                                           *)
(***************************************************************************)
EXTENDS Integers, Sequences, FiniteSets, TLC

\* ---------------------------------------------------------------- bounds
FMax == 3
MaxWidth == 2
MaxSpecs == 3
MaxLayers == 2
MaxSeed == 1
MaxEpochs == 1

\* ------------------------------------------------------ program constants
ITERATIONS_PER_EPOCH == 10000

\* ------------------------------------------------------------ f32 numbers
Sat(x) ==
  IF x > FMax THEN FMax ELSE IF x < -FMax THEN -FMax ELSE x

\* ----------------------------------------------------------------- Matrix
\* the values a cell can hold
F32 ==
  -FMax..FMax

\* one draw of the generator per cell, each in -1..1
RandCell(seed, i, j) ==
  ((seed + 2 * i + j) % 3) - 1

new_random(r, c, seed) ==
  [rows |-> r, columns |-> c,
   data |-> [i \in 1..r |-> [j \in 1..c |-> RandCell(seed, i, j)]]]

Matrix_from(d) ==
  [rows |-> Len(d), columns |-> Len(d[1]), data |-> d]

transpose(m) ==
  [rows |-> m.columns, columns |-> m.rows,
   data |-> [i \in 1..m.columns |-> [j \in 1..m.rows |-> m.data[j][i]]]]

\* f is a function on F32
map(m, f) ==
  [rows |-> m.rows, columns |-> m.columns,
   data |-> [i \in 1..m.rows |-> [j \in 1..m.columns |-> Sat(f[m.data[i][j]])]]]

SameDims(a, b) ==
  a.rows = b.rows /\ a.columns = b.columns

CanMul(a, b) ==
  a.columns = b.rows

Matrix_add(a, b) ==
  [rows |-> a.rows, columns |-> a.columns,
   data |-> [i \in 1..a.rows |->
               [j \in 1..a.columns |-> Sat(a.data[i][j] + b.data[i][j])]]]

Matrix_sub(a, b) ==
  [rows |-> a.rows, columns |-> a.columns,
   data |-> [i \in 1..a.rows |->
               [j \in 1..a.columns |-> Sat(a.data[i][j] - b.data[i][j])]]]

dot_multiply(a, b) ==
  [rows |-> a.rows, columns |-> a.columns,
   data |-> [i \in 1..a.rows |->
               [j \in 1..a.columns |-> Sat(a.data[i][j] * b.data[i][j])]]]

RECURSIVE RowByColumn(_, _, _, _, _)
RowByColumn(a, b, i, j, k) ==
  IF k = 0 THEN 0
  ELSE Sat(RowByColumn(a, b, i, j, k - 1) + Sat(a.data[i][k] * b.data[k][j]))

Matrix_mul(a, b) ==
  [rows |-> a.rows, columns |-> b.columns,
   data |-> [i \in 1..a.rows |->
               [j \in 1..b.columns |-> RowByColumn(a, b, i, j, a.columns)]]]

RECURSIVE Flatten(_, _)
Flatten(d, n) ==
  IF n = 0 THEN <<>> ELSE Flatten(d, n - 1) \o d[n]

to_param(m) ==
  Flatten(m.data, m.rows)

to_param_2d(m) ==
  m.data

Shape(m) ==
  <<m.rows, m.columns>>

\* ------------------------------------------------------------ Activations
Activations == {"RELU"}

Function(act) ==
  [x \in F32 |-> IF x > 0 THEN x ELSE 0]

Derivative(act) ==
  [x \in F32 |-> IF x > 0 THEN 1 ELSE 0]

\* ------------------------------------------------------------- LayerTypes
LearningRates == {1, 2}

LayerTypes ==
  [size : 1..MaxWidth, activation : Activations, learning_rate : LearningRates]

get_size(layer) ==
  layer.size

\* ------------------------------------------------------------------ Dense
Dense_new(layers, layer_cols_before, activation, learning_rate, seed) ==
  [loss |-> 1,
   weights |-> new_random(layer_cols_before, layers, seed),
   biases |-> new_random(layer_cols_before, 1, seed + 1),
   data |-> new_random(0, 0, seed),
   activation_fn |-> activation,
   learning_rate |-> learning_rate]

to_layer(layer, prev_cols, seed) ==
  Dense_new(layer.size, prev_cols, layer.activation, layer.learning_rate, seed)

\* operand of the product in forward
forward_input(inputs) ==
  transpose(Matrix_from(inputs))

forward_ok(self, inputs) ==
  /\ CanMul(self.weights, forward_input(inputs))
  /\ SameDims(Matrix_mul(self.weights, forward_input(inputs)), self.biases)

\* the layer after forward; its output is transpose(data)
forward(self, inputs) ==
  [self EXCEPT !.data =
     map(Matrix_add(Matrix_mul(self.weights, forward_input(inputs)), self.biases),
         Function(self.activation_fn))]

forward_output(self) ==
  transpose(self.data)

RECURSIVE SumSquares(_, _)
SumSquares(v, n) ==
  IF n = 0 THEN 0 ELSE Sat(SumSquares(v, n - 1) + Sat(v[n] * v[n]))

mean_squares(errors_mat) ==
  SumSquares(to_param(errors_mat), Len(to_param(errors_mat)))
    \div Len(to_param(errors_mat))

backward_gradients_mat(self, gradients, errors) ==
  map(dot_multiply(gradients, errors), [x \in F32 |-> x * self.learning_rate])

backward_ok(self, gradients, errors, layer_prev, layer_prev_bias) ==
  /\ SameDims(gradients, errors)
  /\ CanMul(backward_gradients_mat(self, gradients, errors), transpose(self.data))
  /\ SameDims(layer_prev,
              Matrix_mul(backward_gradients_mat(self, gradients, errors),
                         transpose(self.data)))
  /\ SameDims(layer_prev_bias, backward_gradients_mat(self, gradients, errors))
  /\ CanMul(transpose(layer_prev), errors)

backward_return_swapped(self, new_biases, new_layer_prev, gradients_mat, errors_mat) ==
  [self |-> self, new_bias |-> new_layer_prev, new_weights |-> new_biases,
   gradients |-> gradients_mat, errors |-> errors_mat]

\* the tuple returned by backward, with the layer as it is left
backward_return(self, new_biases, new_layer_prev, gradients_mat, errors_mat) ==
  [self |-> self, new_bias |-> new_biases, new_weights |-> new_layer_prev,
   gradients |-> gradients_mat, errors |-> errors_mat]

backward(self, inputs, gradients, errors, layer_prev, layer_prev_bias) ==
  LET gradients_mat == backward_gradients_mat(self, gradients, errors)
      new_layer_prev ==
        Matrix_add(layer_prev, Matrix_mul(gradients_mat, transpose(self.data)))
      new_biases == Matrix_add(layer_prev_bias, gradients_mat)
      errors_mat == Matrix_mul(transpose(layer_prev), errors)
  IN  backward_return([self EXCEPT !.loss = mean_squares(errors_mat)],
                      new_biases, new_layer_prev,
                      map(self.data, Derivative(self.activation_fn)),
                      errors_mat)

\* ---------------------------------------------------------------- Network
VARIABLES
  net,        \* the Network: layer_sizes, loss, layers, uncompiled_layers
  call,       \* the last operation called, with its arguments
  result,     \* what that call returned, or the panic that ended it
  compiled,   \* compile has been called
  written,    \* indices (from 0) of the layers the last back_propegate set
  pc,         \* position of fit: "idle", "fit" or "done"
  train,      \* the arguments of fit: train_in, train_out, epochs
  epoch,      \* the three loop counters of fit
  iter,
  input,
  updates     \* the number of feed_forward + back_propegate pairs completed

vars ==
  <<net, call, result, compiled, written, pc, train, epoch, iter, input, updates>>

Values == {0, 1}

\* the vectors handed to feed_forward and back_propegate
Vectors ==
  UNION {[1..n -> Values] : n \in 1..MaxWidth}

NoPanic == "none"

Returned(ret) ==
  [panic |-> NoPanic, ret |-> ret]

Panicked(msg) ==
  [panic |-> msg, ret |-> <<>>]

\* `len() - 1` on an empty vector: a subtraction overflow in a debug build,
\* an index out of bounds right after it in a release build
EmptyPanics == {"SubtractOverflow", "IndexOutOfBounds"}

Network_new ==
  [layer_sizes |-> <<>>, loss |-> 1, layers |-> <<>>, uncompiled_layers |-> <<>>]

add_layer(self, layer) ==
  [self EXCEPT !.layer_sizes = Append(@, get_size(layer)),
               !.uncompiled_layers = Append(@, layer)]

RECURSIVE compile_loop(_, _, _)
compile_loop(self, i, seed) ==
  IF i > Len(self.uncompiled_layers) - 1 THEN self
  ELSE compile_loop(
         [self EXCEPT !.layers =
            Append(@, to_layer(self.uncompiled_layers[i],
                               self.layer_sizes[i + 1], seed + i))],
         i + 1, seed)

compile(self, seed) ==
  compile_loop(self, 1, seed)

feed_forward_accepts_any(self, inputs) ==
  TRUE

feed_forward_accepts(self, inputs) ==
  Len(inputs) = self.layer_sizes[1]

\* the vector feed_forward returns from the last data_at
feed_forward_return(data_at) ==
  transpose(data_at).data[1]

RECURSIVE feed_forward_loop(_, _, _)
feed_forward_loop(ls, i, data_at) ==
  IF i > Len(ls) THEN [layers |-> ls, result |-> Returned(feed_forward_return(data_at))]
  ELSE IF ~forward_ok(ls[i], to_param_2d(data_at))
       THEN [layers |-> ls, result |-> Panicked("DimensionMismatch")]
       ELSE feed_forward_loop(
              [ls EXCEPT ![i] = forward(ls[i], to_param_2d(data_at))],
              i + 1,
              Matrix_from(to_param_2d(forward_output(forward(ls[i], to_param_2d(data_at))))))

feed_forward(self, inputs) ==
  IF Len(self.layer_sizes) = 0
  THEN [layers |-> self.layers, result |-> Panicked("IndexOutOfBounds")]
  ELSE IF ~feed_forward_accepts(self, inputs)
       THEN [layers |-> self.layers, result |-> Panicked("Invalid number of inputs")]
       ELSE feed_forward_loop(self.layers, 1, transpose(Matrix_from(<<inputs>>)))

back_propegate_accepts_any(self, targets) ==
  TRUE

back_propegate_accepts(self, targets) ==
  Len(targets) = self.layer_sizes[Len(self.layer_sizes)]

back_first_short(ls) ==
  Len(ls) - 2

\* the loop runs i over 0..layers.len() - 1, reversed; positions here count from 1
back_first(ls) ==
  Len(ls) - 1

back_target_same(i) ==
  i

\* the layer that receives the weights and biases computed at position i
back_target(i) ==
  i + 1

RECURSIVE back_propegate_loop(_, _, _, _, _, _)
back_propegate_loop(ls, i, target_matrix, gradients, errors, done) ==
  IF i < 1 THEN [layers |-> ls, result |-> Returned(<<>>), written |-> done]
  ELSE IF ~backward_ok(ls[i], gradients, errors, ls[i + 1].weights, ls[i + 1].biases)
       THEN [layers |-> ls, result |-> Panicked("DimensionMismatch"), written |-> done]
       ELSE LET b == backward(ls[i], target_matrix, gradients, errors,
                              ls[i + 1].weights, ls[i + 1].biases)
                ls1 == [ls EXCEPT ![i] = b.self]
                ls2 == [ls1 EXCEPT ![back_target(i)].weights = b.new_weights,
                                   ![back_target(i)].biases = b.new_bias]
            IN  back_propegate_loop(ls2, i - 1, target_matrix, b.gradients, b.errors,
                                    Append(done, back_target(i) - 1))

\* the outcomes of back_propegate: one, or two where the build decides
back_propegate(self, outputs, targets) ==
  IF Len(self.layer_sizes) = 0
  THEN {[layers |-> self.layers, result |-> Panicked(m), written |-> <<>>] :
          m \in EmptyPanics}
  ELSE IF ~back_propegate_accepts(self, targets)
  THEN {[layers |-> self.layers, written |-> <<>>,
         result |-> Panicked("Output size does not match network output size")]}
  ELSE IF ~SameDims(Matrix_from(<<targets>>), transpose(Matrix_from(<<outputs>>)))
  THEN {[layers |-> self.layers, result |-> Panicked("DimensionMismatch"),
         written |-> <<>>]}
  ELSE IF Len(self.layers) = 0
  THEN {[layers |-> self.layers, result |-> Panicked(m), written |-> <<>>] :
          m \in EmptyPanics}
  ELSE LET parsed == transpose(Matrix_from(<<outputs>>))
           errors == Matrix_sub(Matrix_from(<<targets>>), parsed)
           last == self.layers[Len(self.layers)]
           gradients == map(parsed, Derivative(last.activation_fn))
       IN  {back_propegate_loop(self.layers, back_first(self.layers),
                                Matrix_from(<<targets>>), gradients, errors, <<>>)}

\* ------------------------------------------------------------------- fit
\* bound of the middle loop of fit
inner_iterations_inclusive ==
  ITERATIONS_PER_EPOCH + 1

inner_iterations ==
  ITERATIONS_PER_EPOCH

\* the loop counters after the body has run at <<e, it, inp>>; done when the
\* three loops are exhausted
fit_advance(e, it, inp, samples, epochs) ==
  IF inp + 1 < samples THEN [epoch |-> e, iter |-> it, input |-> inp + 1, pc |-> "fit"]
  ELSE IF it + 1 < inner_iterations
       THEN [epoch |-> e, iter |-> it + 1, input |-> 0, pc |-> "fit"]
       ELSE IF e + 1 < epochs
            THEN [epoch |-> e + 1, iter |-> 0, input |-> 0, pc |-> "fit"]
            ELSE [epoch |-> e, iter |-> it, input |-> inp, pc |-> "done"]

\* ---------------------------------------------------------------- actions
Called(op, vec, outputs, targets, index) ==
  [op |-> op, vec |-> vec, outputs |-> outputs, targets |-> targets, index |-> index]

NoTrain ==
  [train_in |-> <<>>, train_out |-> <<>>, epochs |-> 0]

Running ==
  result.panic = NoPanic

Init ==
  /\ net = Network_new
  /\ call = Called("new", <<>>, <<>>, <<>>, 0)
  /\ result = Returned(<<>>)
  /\ compiled = FALSE
  /\ written = <<>>
  /\ pc = "idle"
  /\ train = NoTrain
  /\ epoch = 0
  /\ iter = 0
  /\ input = 0
  /\ updates = 0

AddLayer ==
  /\ Running
  /\ pc = "idle"
  /\ Len(net.uncompiled_layers) < MaxSpecs
  /\ \E layer \in LayerTypes :
       net' = add_layer(net, layer)
  /\ call' = Called("add_layer", <<>>, <<>>, <<>>, 0)
  /\ result' = Returned(<<>>)
  /\ UNCHANGED <<compiled, written, pc, train, epoch, iter, input, updates>>

Compile ==
  /\ Running
  /\ pc = "idle"
  /\ Len(net.layers) + Len(net.uncompiled_layers) - 1 <= MaxLayers
  /\ call' = Called("compile", <<>>, <<>>, <<>>, 0)
  /\ compiled' = TRUE
  /\ IF Len(net.uncompiled_layers) = 0
     THEN /\ \E m \in EmptyPanics : result' = Panicked(m)
          /\ net' = net
     ELSE /\ \E seed \in 0..MaxSeed : net' = compile(net, seed)
          /\ result' = Returned(<<>>)
  /\ UNCHANGED <<written, pc, train, epoch, iter, input, updates>>

FeedForward ==
  /\ Running
  /\ pc = "idle"
  /\ \E inputs \in Vectors :
       LET r == feed_forward(net, inputs)
       IN  /\ net' = [net EXCEPT !.layers = r.layers]
           /\ result' = r.result
           /\ call' = Called("feed_forward", inputs, <<>>, <<>>, 0)
  /\ UNCHANGED <<compiled, written, pc, train, epoch, iter, input, updates>>

\* the second statement of the body of fit's loops: back_propegate on the
\* outputs feed_forward has just returned
BackPropegate ==
  /\ Running
  /\ pc = "idle"
  /\ call.op = "feed_forward"
  /\ \E targets \in Vectors :
       \E r \in back_propegate(net, result.ret, targets) :
         /\ net' = [net EXCEPT !.layers = r.layers]
         /\ result' = r.result
         /\ written' = r.written
         /\ call' = Called("back_propegate", <<>>, result.ret, targets, 0)
  /\ UNCHANGED <<compiled, pc, train, epoch, iter, input, updates>>

Next ==
  \/ AddLayer
  \/ Compile
  \/ FeedForward
  \/ BackPropegate

Spec ==
  Init /\ [][Next]_vars

\* ------------------------------------------------- the fit specification
\* declared widths of the networks fit is run on
FitTopologies ==
  {<<1, 1>>, <<1, 2, 1>>, <<2, 1>>}

\* train_in and train_out handed to fit
Datasets ==
  {[train_in |-> <<>>, train_out |-> <<>>],
   [train_in |-> <<<<1>>>>, train_out |-> <<<<1>>>>],
   [train_in |-> <<<<1>>, <<0>>>>, train_out |-> <<<<0>>, <<1>>>>],
   [train_in |-> <<<<1>>, <<0>>>>, train_out |-> <<<<1>>>>],
   [train_in |-> <<<<1, 0>>>>, train_out |-> <<<<1>>>>],
   [train_in |-> <<<<1>>>>, train_out |-> <<<<1, 0>>>>]}

RECURSIVE add_layers(_, _, _)
add_layers(self, sizes, n) ==
  IF n = 0 THEN self
  ELSE add_layer(add_layers(self, sizes, n - 1),
                 [size |-> sizes[n], activation |-> "RELU", learning_rate |-> 1])

\* a Network after add_layer for each width and one compile
FitInit ==
  /\ \E sizes \in FitTopologies :
       \E seed \in 0..MaxSeed :
         net = compile(add_layers(Network_new, sizes, Len(sizes)), seed)
  /\ call = Called("compile", <<>>, <<>>, <<>>, 0)
  /\ result = Returned(<<>>)
  /\ compiled = TRUE
  /\ written = <<>>
  /\ pc = "idle"
  /\ train = NoTrain
  /\ epoch = 0
  /\ iter = 0
  /\ input = 0
  /\ updates = 0

\* fit is entered; with no epoch or no sample no body ever runs
FitStart ==
  /\ Running
  /\ pc = "idle"
  /\ \E ds \in Datasets :
       \E epochs \in 0..MaxEpochs :
         /\ train' = [train_in |-> ds.train_in, train_out |-> ds.train_out,
                      epochs |-> epochs]
         /\ pc' = IF epochs = 0 \/ Len(ds.train_in) = 0 THEN "done" ELSE "fit"
  /\ call' = Called("fit", <<>>, <<>>, <<>>, 0)
  /\ epoch' = 0
  /\ iter' = 0
  /\ input' = 0
  /\ UNCHANGED <<net, result, compiled, written, updates>>

\* one run of the body of the innermost loop of fit, and the loop control
\* that follows it
FitStep ==
  /\ Running
  /\ pc = "fit"
  /\ LET sample == train.train_in[input + 1]
         ff == feed_forward(net, sample)
         fed == [net EXCEPT !.layers = ff.layers]
     IN  IF ff.result.panic # NoPanic
         THEN /\ net' = fed
              /\ result' = ff.result
              /\ call' = Called("fit_step", sample, <<>>, <<>>, input)
              /\ UNCHANGED <<written, pc, epoch, iter, input, updates>>
         ELSE IF input + 1 > Len(train.train_out)
         THEN /\ net' = fed
              /\ result' = Panicked("IndexOutOfBounds")
              /\ call' = Called("fit_step", sample, ff.result.ret, <<>>, input)
              /\ UNCHANGED <<written, pc, epoch, iter, input, updates>>
         ELSE \E r \in back_propegate(fed, ff.result.ret, train.train_out[input + 1]) :
                /\ net' = [fed EXCEPT !.layers = r.layers]
                /\ result' = r.result
                /\ written' = r.written
                /\ call' = Called("fit_step", sample, ff.result.ret,
                                  train.train_out[input + 1], input)
                /\ IF r.result.panic # NoPanic
                   THEN UNCHANGED <<pc, epoch, iter, input, updates>>
                   ELSE LET nxt == fit_advance(epoch, iter, input,
                                               Len(train.train_in), train.epochs)
                        IN  /\ pc' = nxt.pc
                            /\ epoch' = nxt.epoch
                            /\ iter' = nxt.iter
                            /\ input' = nxt.input
                            /\ updates' = updates + 1
  /\ UNCHANGED <<compiled, train>>

FitNext ==
  \/ FitStart
  \/ FitStep

FitSpec ==
  FitInit /\ [][FitNext]_vars

\* ----------------------------------------------------------------- claims
OutputSize ==
  net.layer_sizes[Len(net.layer_sizes)]

\* compile has run once over the specifications now held
FreshlyCompiled ==
  /\ compiled
  /\ Len(net.uncompiled_layers) >= 1
  /\ Len(net.layers) = Len(net.uncompiled_layers) - 1

\* C1: feed_forward on a freshly compiled Network with an input as long as the
\* first declared layer size does not fail and returns a vector as long as the
\* last declared layer size.
C1_FeedForwardFreshReturnsOutputSize ==
  (FreshlyCompiled /\ call.op = "feed_forward"
     /\ Len(call.vec) = net.layer_sizes[1])
  => (result.panic = NoPanic /\ Len(result.ret) = OutputSize)

\* C2: once compile has been called and has returned, the Network holds one
\* layer fewer than it holds layer specifications.
C2_LayersOneFewerThanSpecs ==
  (compiled /\ Running)
  => Len(net.layers) = Len(net.uncompiled_layers) - 1

\* C3: add_layer called after compile fails with InvalidState and leaves
\* layer_sizes and the pending specifications as they were.
C3_AddLayerAfterCompileRejected ==
  [][(compiled /\ call'.op = "add_layer")
       => (result'.panic = "InvalidState" /\ net' = net)]_vars

\* C4: feed_forward with an input whose length differs from the first declared
\* layer size panics with "Invalid number of inputs" and changes no layer.
C4_FeedForwardRejectsBadLength ==
  [][(call'.op = "feed_forward" /\ Len(net.layer_sizes) > 0
        /\ Len(call'.vec) # net.layer_sizes[1])
       => (result'.panic = "Invalid number of inputs" /\ net' = net)]_vars

C4_Witness ==
  /\ call.op = "feed_forward"
  /\ result.panic = "Invalid number of inputs"
  /\ Len(net.layers) >= 1

\* C5: back_propegate with targets whose length differs from the last entry of
\* layer_sizes panics with the output size message and writes no layer's
\* weights or biases.
C5_BackPropegateRejectsBadLength ==
  [][(call'.op = "back_propegate" /\ Len(call'.targets) # OutputSize)
       => /\ result'.panic = "Output size does not match network output size"
          /\ Len(net'.layers) = Len(net.layers)
          /\ \A i \in 1..Len(net.layers) :
               /\ net'.layers[i].weights = net.layers[i].weights
               /\ net'.layers[i].biases = net.layers[i].biases]_vars

C5_Witness ==
  /\ call.op = "back_propegate"
  /\ result.panic = "Output size does not match network output size"
  /\ Len(net.layers) >= 2

\* C7: the weights and biases backward returns have the shapes of the weights
\* and biases it was given, so no step changes the shape of any layer's
\* weights or biases.
C7_ShapesPreserved ==
  [][/\ Len(net'.layers) >= Len(net.layers)
     /\ \A i \in 1..Len(net.layers) :
          /\ Shape(net'.layers[i].weights) = Shape(net.layers[i].weights)
          /\ Shape(net'.layers[i].biases) = Shape(net.layers[i].biases)]_vars

C7_Witness ==
  /\ call.op = "back_propegate"
  /\ Running
  /\ \E k \in 1..Len(written) :
       net.layers[written[k] + 1].weights.columns >= 2

LastLayer(n) ==
  n.layers[Len(n.layers)]

\* C8 as stated: back_propegate never changes the last layer's weights and
\* biases.
C8_LastLayerFrozen ==
  [][(call'.op = "back_propegate" /\ Len(net.layers) >= 1)
       => /\ LastLayer(net').weights = LastLayer(net).weights
          /\ LastLayer(net').biases = LastLayer(net).biases]_vars

\* C8 amended: a back_propegate that returns has set the weights and biases of
\* the layers at indices layers.len() - 1 down to 1, in that order: the last
\* layer is among them whenever there are two layers or more, and index 0 never.
C8_WritesOneAhead ==
  [][(call'.op = "back_propegate" /\ result'.panic = NoPanic)
       => written' = [k \in 1..(Len(net.layers) - 1) |-> Len(net.layers) - k]]_vars

C8_Witness ==
  /\ call.op = "back_propegate"
  /\ Running
  /\ Len(net.layers) >= 2
  /\ written[1] = Len(net.layers) - 1

\* C9: on a compiled Network of two layers or more, back_propegate on the
\* outputs feed_forward just returned and targets as long as the declared
\* output size meets no dimension mismatch.
C9_BackPropegateShapesFit ==
  (call.op = "back_propegate" /\ compiled /\ Len(net.layers) >= 2
     /\ Len(call.targets) = OutputSize)
  => result.panic # "DimensionMismatch"

\* C10: no step changes the weights or biases of the first compiled layer.
C10_FirstLayerFrozen ==
  [][Len(net.layers) >= 1
       => /\ net'.layers[1].weights = net.layers[1].weights
          /\ net'.layers[1].biases = net.layers[1].biases]_vars

C10_Witness ==
  /\ call.op = "back_propegate"
  /\ Running
  /\ Len(written) >= 1
  /\ net.layers[1].data.rows >= 1

\* C6: a fit that returns has run feed_forward and back_propegate
\* epochs * 10000 * sample_count times; each run takes the samples in dataset
\* order, feeds the sample's input and back-propagates the outputs of that
\* feed_forward against the target at the same index.
C6_FitUpdateCount ==
  /\ []((pc = "done" /\ Running)
          => updates = train.epochs * ITERATIONS_PER_EPOCH * Len(train.train_in))
  /\ [][call'.op = "fit_step"
          => /\ call'.index = updates % Len(train.train_in)
             /\ call'.vec = train.train_in[call'.index + 1]
             /\ (updates' = updates + 1
                   => /\ call'.outputs = feed_forward(net, call'.vec).result.ret
                      /\ call'.targets = train.train_out[call'.index + 1])]_vars

C6_Witness ==
  /\ pc = "done"
  /\ Running
  /\ train.epochs >= 1
  /\ Len(train.train_in) >= 2
  /\ updates >= 2 * ITERATIONS_PER_EPOCH

====
